---- MODULE Spec2Model ----
(***************************************************************************)
(* Model of the approval lifecycle (src/hitl_watcher.py), of the           *)
(* resilience layer (src/retry_handler.py), of the orchestrator's main     *)
(* loop (src/orchestrator.py) and of ralph_loop (src/ralph_wiggum.py).     *)
(*                                                                         *)
(* Python's None is the empty tuple <<>>, a present value v is <<v>>.      *)
(***************************************************************************)
EXTENDS Integers, Sequences, FiniteSets, TLC

VARIABLES
    \* ---- approval lifecycle (src/hitl_watcher.py) ----
    files,            \* the vault: one action file per id, with its directory and header
    stateFile,        \* executed_ids persisted in .hitl_state.json
    mem,              \* executed_ids of the watcher object (self.state)
    now,              \* wall clock, hours
    report,           \* cycle_stats the last step returned, when it was a scan_and_process
    lastCalled,       \* history: ids ActionExecutor.execute was invoked on in the last step
    calledEver,       \* history: ids ActionExecutor.execute was ever invoked on
    lastAct,          \* history: the operation that made the last step
    \* ---- circuit breaker used directly (src/retry_handler.py) ----
    cb,               \* one CircuitBreaker object
    clock,            \* time.time(), seconds
    cbLast,           \* history: the last call on cb, the state it found, what it returned
    streak,           \* history: Some(k) while the record_* calls so far are k failures
    consec,           \* history: record_failure calls since the last record_success
    \* ---- ErrorHandler.safe_execute (src/retry_handler.py) ----
    circuits,         \* ErrorHandler.circuits: name -> CircuitBreaker
    call,             \* the safe_execute call in progress and its loop position
    ret,              \* what the last safe_execute returned
    calls,            \* number of safe_execute calls made
    seLast,           \* history: the circuit state fn was invoked in, in the last step
    \* ---- the retry decorator (src/retry_handler.py) ----
    wcall,            \* one call of a function wrapped by @retry: its configuration,
                      \* the wrapped function, the loop position and what was observed
    \* ---- TaskQueue (src/retry_handler.py) ----
    queue,            \* queue_dir: file name -> the task written in it
    dead,             \* dead_letter_dir: file name -> the task written in it
    qnow,             \* the wall clock, in ticks of 1/TicksPerSec second
    passes,           \* history: per file, the failed process_queue passes since enqueue
    qLast,            \* history: the TaskQueue operation that made the last step
    origin,           \* history: the number of enqueue calls made and, per file, the
                      \* enqueue call that wrote it (its number and its task)
    \* ---- action files as written on disk (src/hitl_watcher.py) ----
    vault,            \* one action file per id: its directory, header block and body
    execIds,          \* executed_ids of the watcher
    rLast,            \* history: the operation that made the last step, its arguments
                      \* and the ids ActionExecutor.execute was invoked on in it
    \* ---- the orchestrator's main loop (src/orchestrator.py) ----
    orch,             \* position of main(), the _shutdown flag, and history
    \* ---- classify_error (src/retry_handler.py) ----
    err,              \* the exception handed to classify_error
    verdict,          \* what classify_error returned for it, None before the call
    \* ---- ralph_loop (src/ralph_wiggum.py) ----
    rw                \* one ralph_loop call: arguments, directories, RalphState, position

hitlVars == <<files, stateFile, mem, now, report, lastCalled, calledEver, lastAct>>

cbVars == <<cb, clock, cbLast, streak, consec>>

seVars == <<circuits, call, ret, calls, seLast>>

rtVars == <<wcall>>

tqVars == <<queue, dead, qnow, passes, qLast, origin>>

recVars == <<vault, execIds, rLast>>

orVars == <<orch>>

ceVars == <<err, verdict>>

rwVars == <<rw>>

newVars == <<recVars, orVars, ceVars, rwVars>>

rhVars == <<cbVars, seVars, rtVars, tqVars, newVars>>

vars == <<hitlVars, cbVars, seVars, rtVars, tqVars, newVars>>

None == <<>>
Some(v) == <<v>>

\* ------------------------------------------------------------------ bounds
Ids == {"a1", "a2"}
MaxTicks == 1
TickHours == 25
MaxThreshold == 3
MaxTimeout == 2
MaxClock == 3
MaxCount == 4
MaxCalls == 3
MaxRetries == 3
MaxSafeTicks == 1
SafeTickSecs == 60
TaskIds == {"t1", "t2"}
Payloads == {"p1", "p2"}
TicksPerSec == 2
MaxQTicks == 2
MaxEnqueues == 2
MaxTaskRetries == 3
MaxInterval == 2
MaxCycles == 2
MaxIterations == 2

\* ------------------------------------------------- src/hitl_watcher.py
EXPIRY_HOURS == 24

Dirs == {"Pending", "Approved", "Rejected", "Expired", "Done"}

\* A file that does not exist (yet).
NoFile == [loc |-> "none", status |-> "pending", created |-> None, expires |-> None,
           action |-> "general", amount |-> None,
           executed_at |-> None, execution_result |-> None]

\* is_expired with the comparison taken as 'not earlier than'.
is_expired_at_deadline(r, t) ==
    IF r.expires # None THEN t >= r.expires[1]
    ELSE IF r.created # None THEN t >= r.created[1] + EXPIRY_HOURS
    ELSE FALSE

\* HITLAction.is_expired: expires when it is set, else created + EXPIRY_HOURS.
is_expired(r, t) ==
    IF r.expires # None THEN t > r.expires[1]
    ELSE IF r.created # None THEN t > r.created[1] + EXPIRY_HOURS
    ELSE FALSE

\* HITLAction.update_status: rewrites the header with the new status.
update_status(r, s) == [r EXCEPT !.status = s]

\* HITLAction.add_execution_log
add_execution_log(r, t) ==
    [r EXCEPT !.executed_at = Some(t), !.execution_result = Some("result")]

\* shutil.move(f, dest / f.name)
move(r, d) == [r EXCEPT !.loc = d]

\* ActionExecutor.execute returns (TRUE) or raises (FALSE): _execute_payment formats
\* action.amount with "{amount:,.2f}", a TypeError when amount is None.
HandlerReturns(r) == r.action = "payment" => r.amount # None

\* One iteration of HITLWatcher._expire_stale
expire_one(r, t) ==
    IF r.loc = "Pending" /\ is_expired(r, t)
    THEN move(update_status(r, "expired"), "Expired")
    ELSE r

\* HITLWatcher._expire_stale over the whole Pending directory
expire_stale(fs, t) == [i \in Ids |-> expire_one(fs[i], t)]

expired_count(fs, t) ==
    Cardinality({i \in Ids : fs[i].loc = "Pending" /\ is_expired(fs[i], t)})

\* _process_approved iterating over Pending_Approval instead of Approved.
ToRun_pending(fs, ids) == {i \in Ids : fs[i].loc = "Pending" /\ i \notin ids}

\* The files of Approved that _process_approved does not skip.
ToRun(fs, ids) == {i \in Ids : fs[i].loc = "Approved" /\ i \notin ids}

\* _process_approved without the shutil.move to Done.
execute_one_unmoved(r, t) == add_execution_log(update_status(r, "executed"), t)

\* _process_approved, the steps after ActionExecutor.execute returned.
execute_one(r, t) ==
    move(add_execution_log(update_status(r, "executed"), t), "Done")

\* HITLWatcher._process_approved over the whole Approved directory
process_approved(fs, ids, t) ==
    [i \in Ids |-> IF i \in ToRun(fs, ids) /\ HandlerReturns(fs[i])
                   THEN execute_one(fs[i], t) ELSE fs[i]]

Executed(fs, ids) == {i \in ToRun(fs, ids) : HandlerReturns(fs[i])}

\* HITLWatcher._save_state
save_state(ids) == ids

pending_count(fs) == Cardinality({i \in Ids : fs[i].loc = "Pending"})

\* ------------------------------------------------- src/retry_handler.py
\* CircuitBreaker.__init__
CircuitBreaker(failure_threshold, recovery_timeout) ==
    [state |-> "CLOSED", failure_count |-> 0, last_failure_time |-> 0,
     success_count |-> 0,
     failure_threshold |-> failure_threshold, recovery_timeout |-> recovery_timeout]

\* can_execute with the recovery test taken as 'later than'.
can_execute_late(b, t) ==
    IF b.state = "CLOSED" THEN [cb |-> b, res |-> TRUE]
    ELSE IF b.state = "OPEN" THEN
        IF t - b.last_failure_time > b.recovery_timeout
        THEN [cb |-> [b EXCEPT !.state = "HALF_OPEN"], res |-> TRUE]
        ELSE [cb |-> b, res |-> FALSE]
    ELSE [cb |-> b, res |-> TRUE]

\* CircuitBreaker.can_execute at time t: the breaker afterwards and the answer.
can_execute(b, t) ==
    IF b.state = "CLOSED" THEN [cb |-> b, res |-> TRUE]
    ELSE IF b.state = "OPEN" THEN
        IF t - b.last_failure_time >= b.recovery_timeout
        THEN [cb |-> [b EXCEPT !.state = "HALF_OPEN"], res |-> TRUE]
        ELSE [cb |-> b, res |-> FALSE]
    ELSE IF b.state = "HALF_OPEN" THEN [cb |-> b, res |-> TRUE]
    ELSE [cb |-> b, res |-> FALSE]

\* a success that closes the circuit from any state
record_success_closing(b) ==
    [b EXCEPT !.state = "CLOSED", !.failure_count = 0, !.success_count = @ + 1]

\* a success in HALF_OPEN that closes the circuit and keeps failure_count
record_success_keeping(b) ==
    [b EXCEPT !.state = IF @ = "HALF_OPEN" THEN "CLOSED" ELSE @,
              !.success_count = @ + 1]

\* CircuitBreaker.record_success
record_success(b) ==
    LET c == IF b.state = "HALF_OPEN"
             THEN [b EXCEPT !.state = "CLOSED", !.failure_count = 0]
             ELSE b
    IN  [c EXCEPT !.success_count = @ + 1]

\* a failure that is not counted
record_failure_uncounted(b, t) == [b EXCEPT !.last_failure_time = t]

\* CircuitBreaker.record_failure at time t
record_failure(b, t) ==
    LET c == [b EXCEPT !.failure_count = @ + 1, !.last_failure_time = t]
    IN  IF c.state = "HALF_OPEN" THEN [c EXCEPT !.state = "OPEN"]
        ELSE IF c.failure_count >= c.failure_threshold THEN [c EXCEPT !.state = "OPEN"]
        ELSE c

NoCall == [op |-> "none", pre |-> "CLOSED", due |-> FALSE, res |-> FALSE]

\* The breaker variables while another part of the system is examined.
CbIdle ==
    /\ cb = CircuitBreaker(1, 0)
    /\ clock = 0
    /\ cbLast = NoCall
    /\ streak = Some(0)
    /\ consec = 0

\* A breaker constructed Closed with any threshold >= 1 and any recovery timeout.
CbInit ==
    /\ \E n \in 1..MaxThreshold, rt \in 0..MaxTimeout : cb = CircuitBreaker(n, rt)
    /\ clock = 0
    /\ cbLast = NoCall
    /\ streak = Some(0)
    /\ consec = 0

\* now - last_failure_time >= recovery_timeout, as the caller of can_execute sees it.
Due(b, t) == t - b.last_failure_time >= b.recovery_timeout

CanExecute ==
    /\ cb' = can_execute(cb, clock).cb
    /\ cbLast' = [op |-> "can_execute", pre |-> cb.state, due |-> Due(cb, clock),
                  res |-> can_execute(cb, clock).res]
    /\ UNCHANGED <<clock, streak, consec>>
    /\ UNCHANGED <<hitlVars, newVars, seVars, rtVars, tqVars>>

RecordSuccess ==
    /\ cb.success_count < MaxCount
    /\ cb' = record_success(cb)
    /\ cbLast' = [op |-> "record_success", pre |-> cb.state, due |-> Due(cb, clock),
                  res |-> FALSE]
    /\ streak' = None
    /\ consec' = 0
    /\ UNCHANGED clock
    /\ UNCHANGED <<hitlVars, newVars, seVars, rtVars, tqVars>>

RecordFailure ==
    /\ cb.failure_count < MaxCount
    /\ cb' = record_failure(cb, clock)
    /\ cbLast' = [op |-> "record_failure", pre |-> cb.state, due |-> Due(cb, clock),
                  res |-> FALSE]
    /\ streak' = IF streak = None THEN None ELSE Some(streak[1] + 1)
    /\ consec' = consec + 1
    /\ UNCHANGED clock
    /\ UNCHANGED <<hitlVars, newVars, seVars, rtVars, tqVars>>

\* Time passes between two calls.
CbTick ==
    /\ clock < MaxClock
    /\ clock' = clock + 1
    /\ UNCHANGED <<cb, cbLast, streak, consec>>
    /\ UNCHANGED <<hitlVars, newVars, seVars, rtVars, tqVars>>

CbNext ==
    \/ CanExecute
    \/ RecordSuccess
    \/ RecordFailure
    \/ CbTick


\* ------------------------------------------------- error classification
\* An exception is its class with the classes it inherits from, and the
\* categories whose ERROR_MESSAGE_PATTERNS occur in its message.
Exc(cls, bases, hits) == [cls |-> cls, isa |-> {cls} \cup bases, hits |-> hits]

\* EXCEPTION_CATEGORY_MAP, in its order
EXCEPTION_CATEGORY_MAP ==
    << <<"PermissionError", "AUTH">>,
       <<"MemoryError", "SYSTEM">>,
       <<"SystemError", "SYSTEM">>,
       <<"ConnectionError", "TRANSIENT">>,
       <<"TimeoutError", "TRANSIENT">>,
       <<"ConnectionResetError", "TRANSIENT">>,
       <<"BrokenPipeError", "TRANSIENT">>,
       <<"OSError", "TRANSIENT">>,
       <<"ValueError", "LOGIC">>,
       <<"TypeError", "LOGIC">>,
       <<"KeyError", "LOGIC">>,
       <<"AttributeError", "LOGIC">> >>

\* ERROR_MESSAGE_PATTERNS, in the order of its keys
PATTERN_ORDER == <<"TRANSIENT", "AUTH", "LOGIC", "SYSTEM">>

\* classify_error
classify_error(e) ==
    LET T == {k \in 1..Len(EXCEPTION_CATEGORY_MAP) : EXCEPTION_CATEGORY_MAP[k][1] \in e.isa}
        P == {k \in 1..Len(PATTERN_ORDER) : PATTERN_ORDER[k] \in e.hits}
    IN  IF T # {} THEN EXCEPTION_CATEGORY_MAP[CHOOSE k \in T : \A j \in T : k <= j][2]
        ELSE IF P # {} THEN PATTERN_ORDER[CHOOSE k \in P : \A j \in P : k <= j]
        ELSE "LOGIC"

\* The errors fn raises in the runs examined.
FnErrors ==
    { Exc("ConnectionError", {"OSError"}, {}),
      Exc("TimeoutError", {"OSError"}, {}),
      Exc("PermissionError", {"OSError"}, {"AUTH"}),
      Exc("MemoryError", {}, {}),
      Exc("RuntimeError", {}, {}) }

\* ConnectionError(f"Circuit {circuit_name} open")
CircuitOpenError == Exc("ConnectionError", {"OSError"}, {})

\* ------------------------------------------------- ErrorHandler
DEFAULT_FAILURE_THRESHOLD == 5
DEFAULT_RECOVERY_TIMEOUT == 60

CircuitNames == {"svc"}

\* ErrorHandler.get_circuit: the registry with the breaker of that name in it.
get_circuit(cs, name) ==
    IF name \in DOMAIN cs THEN cs
    ELSE [n \in DOMAIN cs \cup {name} |->
            IF n = name
            THEN CircuitBreaker(DEFAULT_FAILURE_THRESHOLD, DEFAULT_RECOVERY_TIMEOUT)
            ELSE cs[n]]

Idle == [pc |-> "idle", attempt |-> 0, max_retries |-> 0, circuit_name |-> None,
         fallback |-> FALSE, invoked |-> 0, sleeps |-> 0]

\* No call in progress, the circuit_name and fallback of the call that returned
\* last being kept.
Returned(c) == [Idle EXCEPT !.circuit_name = c.circuit_name, !.fallback = c.fallback]

\* fallbacks counts the calls of fallback, fallback_arg is the error passed to it,
\* invoked and sleeps count the invocations of fn and the time.sleep calls.
NoReturn == [succeeded |-> FALSE, result |-> None, error |-> None, fallbacks |-> 0,
             fallback_arg |-> None, invoked |-> 0, sleeps |-> 0]

SeInit ==
    /\ circuits = [n \in {} |-> CircuitBreaker(1, 0)]
    /\ call = Idle
    /\ ret = NoReturn
    /\ calls = 0
    /\ seLast = None

\* min(1.0 * 2 ** (attempt - 1), 30.0)
Pow2(n) == IF n <= 0 THEN 1 ELSE IF n = 1 THEN 2 ELSE IF n = 2 THEN 4
           ELSE IF n = 3 THEN 8 ELSE IF n = 4 THEN 16 ELSE 32

BackoffDelay(attempt) == IF Pow2(attempt - 1) < 30 THEN Pow2(attempt - 1) ELSE 30

\* delay + random.uniform(0, delay * 0.5), in whole seconds: the two ends
SleepTimes(attempt) ==
    {BackoffDelay(attempt), BackoffDelay(attempt) + BackoffDelay(attempt) \div 2}

\* the final failure that hands the fallback nothing and drops the error
Failed_dropped(c, e) ==
    [succeeded |-> FALSE, result |-> None, error |-> None, fallbacks |-> 0,
     fallback_arg |-> None, invoked |-> c.invoked + 1, sleeps |-> c.sleeps]

\* What safe_execute returns on a final failure e of the call c (invoked counts
\* the invocations of fn).
Failed(c, e) ==
    [succeeded |-> FALSE,
     result |-> IF c.fallback THEN Some("fallback") ELSE None,
     error |-> Some(e),
     fallbacks |-> IF c.fallback THEN 1 ELSE 0,
     fallback_arg |-> IF c.fallback THEN Some(e) ELSE None,
     invoked |-> c.invoked + 1, sleeps |-> c.sleeps]

\* the circuit-open return that leaves the fallback out
circuit_skip_bare(fb) ==
    [succeeded |-> FALSE, result |-> None, error |-> Some(CircuitOpenError),
     fallbacks |-> 0, fallback_arg |-> None, invoked |-> 0, sleeps |-> 0]

\* What safe_execute returns when the circuit refuses the call.
circuit_skip(fb) ==
    [succeeded |-> FALSE,
     result |-> IF fb THEN Some("fallback") ELSE None,
     error |-> IF fb THEN None ELSE Some(CircuitOpenError),
     fallbacks |-> IF fb THEN 1 ELSE 0,
     fallback_arg |-> IF fb THEN Some(CircuitOpenError) ELSE None,
     invoked |-> 0, sleeps |-> 0]

\* safe_execute(fn, fallback=.., max_retries=mr, circuit_name=cn) up to the
\* first invocation of fn: the circuit check (fb: a fallback is given).
SafeCallWith(mr, cn, fb) ==
    /\ call.pc = "idle"
    /\ calls' = calls + 1
    /\ seLast' = None
    /\   LET c == [pc |-> "loop", attempt |-> 1, max_retries |-> mr,
                   circuit_name |-> cn, fallback |-> fb, invoked |-> 0, sleeps |-> 0]
             cs == IF cn = None THEN circuits ELSE get_circuit(circuits, cn[1])
             chk == IF cn = None THEN [cb |-> CircuitBreaker(1, 0), res |-> TRUE]
                    ELSE can_execute(cs[cn[1]], clock)
         IN  /\ circuits' = IF cn = None THEN circuits
                            ELSE [cs EXCEPT ![cn[1]] = chk.cb]
             /\ IF ~chk.res
                THEN /\ call' = Returned(c)
                     /\ ret' = circuit_skip(fb)
                ELSE IF mr = 0
                THEN /\ call' = Returned(c)
                     /\ ret' = NoReturn
                ELSE /\ call' = c
                     /\ ret' = NoReturn
    /\ UNCHANGED <<hitlVars, newVars, rtVars, tqVars, cb, clock, cbLast, streak, consec>>

\* A safe_execute call with any arguments.
SafeCall ==
    /\ calls < MaxCalls
    /\ \E mr \in 0..MaxRetries, cn \in {None} \cup {Some(n) : n \in CircuitNames},
          fb \in BOOLEAN : SafeCallWith(mr, cn, fb)

\* One pass of the retry loop in which fn returns.
SafeAttemptOk ==
    /\ call.pc = "loop"
    /\ seLast' = IF call.circuit_name = None THEN Some("none")
                 ELSE Some(circuits[call.circuit_name[1]].state)
    /\ circuits' = IF call.circuit_name = None THEN circuits
                   ELSE [circuits EXCEPT ![call.circuit_name[1]] = record_success(@)]
    /\ ret' = [succeeded |-> TRUE, result |-> Some("value"), error |-> None,
               fallbacks |-> 0, fallback_arg |-> None, invoked |-> call.invoked + 1,
               sleeps |-> call.sleeps]
    /\ call' = Returned(call)
    /\ UNCHANGED <<hitlVars, newVars, rtVars, tqVars, cb, clock, cbLast, streak, consec, calls>>

\* One pass of the retry loop in which fn raises e.
SafeFailWith(e) ==
    /\ call.pc = "loop"
    /\ seLast' = IF call.circuit_name = None THEN Some("none")
                 ELSE Some(circuits[call.circuit_name[1]].state)
    /\ circuits' = IF call.circuit_name = None THEN circuits
                   ELSE [circuits EXCEPT ![call.circuit_name[1]] = record_failure(@, clock)]
    /\   IF classify_error(e) # "TRANSIENT"
         THEN /\ ret' = Failed(call, e)
              /\ call' = Returned(call)
              /\ clock' = clock
         ELSE IF call.attempt < call.max_retries
         THEN /\ \E d \in SleepTimes(call.attempt) : clock' = clock + d
              /\ call' = [call EXCEPT !.attempt = @ + 1, !.invoked = @ + 1,
                                      !.sleeps = @ + 1]
              /\ ret' = ret
         ELSE /\ ret' = Failed(call, e)
              /\ call' = Returned(call)
              /\ clock' = clock
    /\ UNCHANGED <<hitlVars, newVars, rtVars, tqVars, cb, cbLast, streak, consec, calls>>

\* One pass of the retry loop in which fn raises.
SafeAttemptFail == \E e \in FnErrors : SafeFailWith(e)

\* Time passes between two safe_execute calls.
SafeTick ==
    /\ call.pc = "idle"
    /\ clock + SafeTickSecs <= MaxSafeTicks * SafeTickSecs
    /\ clock' = clock + SafeTickSecs
    /\ seLast' = None
    /\ UNCHANGED <<hitlVars, newVars, rtVars, tqVars, cb, cbLast, streak, consec, circuits, call, ret, calls>>

SeNext ==
    \/ SafeCall
    \/ SafeAttemptOk
    \/ SafeAttemptFail
    \/ SafeTick

\* ------------------------------------------------- the retry decorator
\* The wrapped function, as one wrapper call sees it: it raises fails[i] on its
\* i-th invocation and returns "value" once past the end of fails.
\* retryable_exceptions is at its default (Exception,), which catches every
\* error of FnErrors; backoff_base, backoff_max and jitter are at their defaults.
RtIdle ==
    [pc |-> "idle", max_retries |-> 0, category |-> None, on_retry |-> FALSE,
     on_failure |-> FALSE, fails |-> <<>>, attempt |-> 0, invoked |-> 0,
     sleeps |-> 0, on_retry_calls |-> 0, on_failure_calls |-> 0,
     result |-> None, raised |-> None]

RtInit == wcall = RtIdle

\* The sequences over S of length at most n.
SeqsUpTo(S, n) == UNION {[1..k -> S] : k \in 0..n}

Categories == {"TRANSIENT", "AUTH", "LOGIC", "SYSTEM"}

\* err_category = category or classify_error(e)
err_category(category, e) == IF category # None THEN category[1] ELSE classify_error(e)

\* the test that never fires: every failure is taken as retryable
non_retryable_never(category, e) == FALSE

\* if err_category != ErrorCategory.TRANSIENT and not category
non_retryable(category, e) == err_category(category, e) # "TRANSIENT" /\ category = None

\* the loop giving up one attempt early
attempts_left_short(r) == r.attempt < r.max_retries - 1

\* if attempt < max_retries
attempts_left(r) == r.attempt < r.max_retries

\* the exhausted branch that raises without calling on_failure
exhausted_silent(r, e) == [r EXCEPT !.pc = "raised", !.raised = Some(e)]

\* the else branch: retry_exhausted, on_failure(e, max_retries) if given, raise
exhausted(r, e) ==
    [r EXCEPT !.pc = "raised", !.raised = Some(e),
              !.on_failure_calls = IF r.on_failure THEN @ + 1 ELSE @]

\* The decorated function is called: the wrapper up to the first pass of its
\* for loop (with max_retries = 0 the loop is empty and the wrapper returns None).
RetryCall ==
    /\ wcall.pc = "idle"
    /\ \E mr \in 0..MaxRetries, cat \in {None} \cup {Some(c) : c \in Categories},
          onr \in BOOLEAN, onf \in BOOLEAN, fn \in SeqsUpTo(FnErrors, MaxRetries) :
         wcall' = [RtIdle EXCEPT !.pc = IF mr = 0 THEN "returned" ELSE "loop",
                              !.max_retries = mr, !.category = cat,
                              !.on_retry = onr, !.on_failure = onf, !.fails = fn,
                              !.attempt = IF mr = 0 THEN 0 ELSE 1]
    /\ UNCHANGED <<hitlVars, newVars, cbVars, seVars, tqVars>>

\* One pass of the loop in which func returns.
RetryAttemptOk ==
    /\ wcall.pc = "loop"
    /\ wcall.attempt <= wcall.max_retries
    /\ wcall.attempt > Len(wcall.fails)
    /\ wcall' = [wcall EXCEPT !.pc = "returned", !.invoked = @ + 1, !.result = Some("value")]
    /\ UNCHANGED <<hitlVars, newVars, cbVars, seVars, tqVars>>

\* One pass of the loop in which func raises.
RetryAttemptFail ==
    /\ wcall.pc = "loop"
    /\ wcall.attempt <= wcall.max_retries
    /\ wcall.attempt <= Len(wcall.fails)
    /\ LET e == wcall.fails[wcall.attempt]
           r == [wcall EXCEPT !.invoked = @ + 1]
       IN  IF non_retryable(r.category, e)
           THEN /\ wcall' = [r EXCEPT !.pc = "raised", !.raised = Some(e)]
                /\ clock' = clock
           ELSE IF attempts_left(r)
           THEN /\ wcall' = [r EXCEPT !.attempt = @ + 1, !.sleeps = @ + 1,
                                   !.on_retry_calls = IF r.on_retry THEN @ + 1 ELSE @]
                /\ \E d \in SleepTimes(r.attempt) : clock' = clock + d
           ELSE /\ wcall' = exhausted(r, e)
                /\ clock' = clock
    /\ UNCHANGED <<hitlVars, newVars, cb, cbLast, streak, consec, seVars, tqVars>>

RtNext ==
    \/ RetryCall
    \/ RetryAttemptOk
    \/ RetryAttemptFail

\* ------------------------------------------------- the two retry loops on one fn
\* safe_execute called, after the decorated call has ended, with the same
\* max_retries and a fn with the same outcomes (wcall.fails), on a handler that
\* made no call before; with or without circuit_name and fallback.
SafeCallSame ==
    /\ wcall.pc \in {"returned", "raised"}
    /\ calls = 0
    /\ \E cn \in {None} \cup {Some(n) : n \in CircuitNames}, fb \in BOOLEAN :
         SafeCallWith(wcall.max_retries, cn, fb)

\* The pass of safe_execute's loop in which that fn returns.
SafeSameOk ==
    /\ call.pc = "loop"
    /\ call.invoked + 1 > Len(wcall.fails)
    /\ SafeAttemptOk

\* The pass of safe_execute's loop in which that fn raises.
SafeSameFail ==
    /\ call.pc = "loop"
    /\ call.invoked + 1 <= Len(wcall.fails)
    /\ SafeFailWith(wcall.fails[call.invoked + 1])

EqNext ==
    \/ RetryCall
    \/ RetryAttemptOk
    \/ RetryAttemptFail
    \/ SafeCallSame
    \/ SafeSameOk
    \/ SafeSameFail

\* ------------------------------------------------- TaskQueue
\* int(time.time()) at tick t
Second(t) == t \div TicksPerSec

\* the file name f"q_{task_id}_{int(time.time())}.json"
QueueFile(task_id, t) == <<task_id, Second(t)>>

\* The task dict enqueue builds at tick t (enqueued_at = datetime.now()); the two
\* dead-letter keys, absent from a queued task, are None.
QueuedTask(task_id, payload, max_retries, t) ==
    [id |-> task_id, type |-> "task", payload |-> payload, reason |-> "api_down",
     enqueued_at |-> t, retry_count |-> 0, max_retries |-> max_retries,
     status |-> "queued", dead_letter_reason |-> None, dead_letter_at |-> None]

\* Path.write_text: the directory with file f holding c, whatever it held before
write_text(dir, f, c) == [n \in DOMAIN dir \cup {f} |-> IF n = f THEN c ELSE dir[n]]

\* TaskQueue.enqueue at tick t: the queue directory afterwards
enqueue(q, task_id, payload, max_retries, t) ==
    write_text(q, QueueFile(task_id, t), QueuedTask(task_id, payload, max_retries, t))

\* the dead-letter test passed one failure late
retries_exhausted_late(task) == task.retry_count > task.max_retries

\* if task["retry_count"] >= task.get("max_retries", 3), on the task in memory
retries_exhausted(task) == task.retry_count >= task.max_retries

\* The task dequeue_all read from file f, after retry_count += 1.
Attempted(q, f) == [q[f] EXCEPT !.retry_count = @ + 1]

\* send_to_dead_letter attaching no reason
DeadLetter_no_reason(task, error_msg, t) ==
    [task EXCEPT !.dead_letter_at = Some(t), !.status = "dead_letter"]

\* The task send_to_dead_letter writes at tick t: the one it reads from the file.
DeadLetter(task, error_msg, t) ==
    [task EXCEPT !.dead_letter_reason = Some(error_msg), !.dead_letter_at = Some(t),
                 !.status = "dead_letter"]

\* The files of q that process_queue, with processor_fn raising on those of F,
\* sends to the dead-letter directory.
DeadLettered(q, F) == {f \in F \cap DOMAIN q : retries_exhausted(Attempted(q, f))}

\* send_to_dead_letter leaving the file it relocates in the queue directory
queue_after_kept(q, F) == [f \in F \cap DOMAIN q |-> Attempted(q, f)]

\* The queue directory after that process_queue.
queue_after(q, F) ==
    [f \in (F \cap DOMAIN q) \ DeadLettered(q, F) |-> Attempted(q, f)]

\* str(e) of the error processor_fn raises on a task: it tells the attempt, as
\* in raise ConnectionError(f"attempt {task['retry_count']} failed").
ErrorMsg(task) == task.retry_count

\* The dead-letter directory after it.
dead_after(d, q, F, t) ==
    [f \in DOMAIN d \cup DeadLettered(q, F) |->
        IF f \in DeadLettered(q, F)
        THEN DeadLetter(q[f], ErrorMsg(Attempted(q, f)), t)
        ELSE d[f]]

\* The place of a task id in the order of strings.
IdRank(task_id) == IF task_id = "t1" THEN 1 ELSE 2

\* File name f sorts before file name g.
NameBefore(f, g) ==
    \/ IdRank(f[1]) < IdRank(g[1])
    \/ f[1] = g[1] /\ f[2] < g[2]

\* TaskQueue.dequeue_all: the files of the queue directory, sorted by name.
dequeue_all(q) ==
    CHOOSE s \in [1..Cardinality(DOMAIN q) -> DOMAIN q] :
        \A i, j \in 1..Cardinality(DOMAIN q) : i < j => NameBefore(s[i], s[j])

\* results with the dead-lettered tasks left out of the count
results_uncounted(q, F) ==
    [processed |-> Cardinality(DOMAIN q \ F),
     failed |-> Cardinality((F \cap DOMAIN q) \ DeadLettered(q, F)),
     dead_letter |-> 0]

\* The dict process_queue returns: one count per branch taken, over the tasks
\* of dequeue_all.
results(q, F) ==
    [processed |-> Cardinality(DOMAIN q \ F),
     failed |-> Cardinality((F \cap DOMAIN q) \ DeadLettered(q, F)),
     dead_letter |-> Cardinality(DeadLettered(q, F))]

NoOp == [op |-> "none", id |-> "", failed |-> {}, order |-> <<>>,
         results |-> [processed |-> 0, failed |-> 0, dead_letter |-> 0]]

TqInit ==
    /\ queue = [f \in {} |-> QueuedTask("", "", 0, 0)]
    /\ dead = [f \in {} |-> QueuedTask("", "", 0, 0)]
    /\ qnow = 0
    /\ passes = [queue |-> [f \in {} |-> 0], dead |-> [f \in {} |-> 0]]
    /\ qLast = NoOp
    /\ origin = [n |-> 0, queue |-> [f \in {} |-> 0], dead |-> [f \in {} |-> 0]]

\* Number of enqueue calls made.
Enqueued == origin.n

Enqueue ==
    /\ Enqueued < MaxEnqueues
    /\ \E i \in TaskIds, p \in Payloads, mr \in {1, MaxTaskRetries} :
         /\ queue' = enqueue(queue, i, p, mr, qnow)
         /\ passes' = [passes EXCEPT !.queue = write_text(@, QueueFile(i, qnow), 0)]
         /\ qLast' = [NoOp EXCEPT !.op = "enqueue", !.id = i]
         /\ origin' = [origin EXCEPT
                !.n = @ + 1,
                !.queue = write_text(@, QueueFile(i, qnow),
                                     [serial |-> origin.n + 1,
                                      task |-> QueuedTask(i, p, mr, qnow)])]
    /\ UNCHANGED <<dead, qnow>>
    /\ UNCHANGED <<hitlVars, newVars, cbVars, seVars, rtVars>>

\* TaskQueue.process_queue, with a processor_fn that raises on the files of F and
\* returns on the others.
ProcessQueue ==
    /\ DOMAIN queue # {}
    /\ \E F \in SUBSET DOMAIN queue :
         /\ queue' = queue_after(queue, F)
         /\ dead' = dead_after(dead, queue, F, qnow)
         /\ passes' =
               [queue |-> [f \in DOMAIN queue_after(queue, F) |-> passes.queue[f] + 1],
                dead |-> [f \in DOMAIN dead_after(dead, queue, F, qnow) |->
                            IF f \in DeadLettered(queue, F)
                            THEN passes.queue[f] + 1 ELSE passes.dead[f]]]
         /\ qLast' = [op |-> "process_queue", id |-> "", failed |-> F,
                      order |-> dequeue_all(queue), results |-> results(queue, F)]
         /\ origin' = [origin EXCEPT
                !.queue = [f \in DOMAIN queue_after(queue, F) |-> origin.queue[f]],
                !.dead = [f \in DOMAIN dead_after(dead, queue, F, qnow) |->
                            IF f \in DeadLettered(queue, F)
                            THEN origin.queue[f] ELSE origin.dead[f]]]
    /\ UNCHANGED qnow
    /\ UNCHANGED <<hitlVars, newVars, cbVars, seVars, rtVars>>

QTick ==
    /\ qnow < MaxQTicks
    /\ qnow' = qnow + 1
    /\ qLast' = NoOp
    /\ UNCHANGED <<queue, dead, passes, origin>>
    /\ UNCHANGED <<hitlVars, newVars, cbVars, seVars, rtVars>>

TqNext ==
    \/ Enqueue
    \/ ProcessQueue
    \/ QTick

\* The part of directory history h that a pass over the files of dn leaves:
\* the files outside dn as they are, those of dn as `after` has them.
Merge(h, dn, after) ==
    [f \in (DOMAIN h \ dn) \cup DOMAIN after |-> IF f \in DOMAIN after THEN after[f] ELSE h[f]]

\* The process dies inside process_queue: the first k - 1 files of dequeue_all
\* are handled (processor_fn raising on those of F), the k-th is cut, either
\* before anything is written for it or (w) inside send_to_dead_letter, after
\* dl_path.write_text and before fp.unlink.
ProcessCrash ==
    /\ DOMAIN queue # {}
    /\ \E k \in 1..Cardinality(DOMAIN queue), F \in SUBSET DOMAIN queue, w \in BOOLEAN :
         LET order == dequeue_all(queue)
             dn == {order[i] : i \in 1..(k - 1)}
             c == order[k]
             qd == [f \in dn |-> queue[f]]
             d1 == dead_after(dead, qd, F, qnow)
             W == IF w THEN {c} ELSE {}
         IN  /\ F \subseteq dn
             /\ w => retries_exhausted(Attempted(queue, c))
             /\ queue' = Merge(queue, dn, queue_after(qd, F))
             /\ dead' = IF w THEN write_text(d1, c, DeadLetter(queue[c],
                                        ErrorMsg(Attempted(queue, c)), qnow))
                              ELSE d1
             /\ passes' =
                   [queue |-> Merge(passes.queue, dn,
                                 [f \in DOMAIN queue_after(qd, F) |-> passes.queue[f] + 1]),
                    dead |-> [f \in DOMAIN d1 \cup W |->
                                IF f \in DeadLettered(qd, F) \cup W
                                THEN passes.queue[f] + 1 ELSE passes.dead[f]]]
             /\ qLast' = [NoOp EXCEPT !.op = "crash", !.failed = F \cup W,
                                       !.order = SubSeq(order, 1, k)]
             /\ origin' = [origin EXCEPT
                    !.queue = Merge(@, dn,
                                 [f \in DOMAIN queue_after(qd, F) |-> origin.queue[f]]),
                    !.dead = [f \in DOMAIN d1 \cup W |->
                                IF f \in DeadLettered(qd, F) \cup W
                                THEN origin.queue[f] ELSE origin.dead[f]]]
    /\ UNCHANGED qnow
    /\ UNCHANGED <<hitlVars, newVars, cbVars, seVars, rtVars>>

TqCrashNext ==
    \/ TqNext
    \/ ProcessCrash

\* ------------------------------------------------- the approval lifecycle
HitlInit ==
    /\ files = [i \in Ids |-> NoFile]
    /\ stateFile = {}
    /\ mem = {}
    /\ now = 0
    /\ report = None
    /\ lastCalled = {}
    /\ calledEver = {}
    /\ lastAct = "init"

\* A producer writes a new action file into Pending_Approval with status pending
\* (HITLTemplates.*_action: expires = now + EXPIRY_HOURS; simulate_e2e TEST 10
\* rewrites expires; hand-written files may carry none).
Create(i) ==
    /\ files[i].loc = "none"
    /\ \E act \in {"email", "payment"}, amt \in {None, Some(750)},
          exp \in {None, Some(now + EXPIRY_HOURS), Some(now)} :
         /\ act = "email" => amt = None
         /\ files' = [files EXCEPT ![i] =
                [loc |-> "Pending", status |-> "pending", created |-> Some(now),
                 expires |-> exp, action |-> act, amount |-> amt,
                 executed_at |-> None, execution_result |-> None]]
    /\ lastCalled' = {}
    /\ report' = None
    /\ lastAct' = "create"
    /\ UNCHANGED <<stateFile, mem, now, calledEver>>
    /\ UNCHANGED rhVars

\* The human moves a file between folders: approves or rejects it, or puts it
\* (back) into Pending_Approval or Approved from wherever it is.
HumanDirs == {"Pending", "Approved", "Rejected"}

ExternalMove(i) ==
    /\ files[i].loc \in Dirs
    /\ \E d \in HumanDirs \ {files[i].loc} : files' = [files EXCEPT ![i] = move(@, d)]
    /\ lastCalled' = {}
    /\ report' = None
    /\ lastAct' = "move"
    /\ UNCHANGED <<stateFile, mem, now, calledEver>>
    /\ UNCHANGED rhVars

Tick ==
    /\ now + TickHours <= MaxTicks * TickHours
    /\ now' = now + TickHours
    /\ lastCalled' = {}
    /\ report' = None
    /\ lastAct' = "tick"
    /\ UNCHANGED <<files, stateFile, mem, calledEver>>
    /\ UNCHANGED rhVars

\* HITLWatcher.scan_and_process, a cycle that returns.
scan_and_process ==
    LET f1 == expire_stale(files, now)
        run == ToRun(f1, mem)
        f2 == process_approved(f1, mem, now)
        ids == mem \cup Executed(f1, mem)
    IN  /\ files' = f2
        /\ mem' = ids
        /\ stateFile' = save_state(ids)
        /\ report' = Some([expired |-> expired_count(files, now),
                           executed |-> Cardinality(Executed(f1, mem)),
                           pending |-> pending_count(f2)])
        /\ lastCalled' = run
        /\ calledEver' = calledEver \cup run
        /\ lastAct' = IF lastAct \in {"scan", "rescan"} THEN "rescan" ELSE "scan"
        /\ now' = now
        /\ UNCHANGED rhVars

\* _process_approved cut after k of its writes on file r, ActionExecutor.execute
\* having returned: 1 nothing written, 2 update_status, 3 add_execution_log.
execute_cut(r, t, k) ==
    IF k = 1 THEN r
    ELSE IF k = 2 THEN update_status(r, "executed")
    ELSE add_execution_log(update_status(r, "executed"), t)

\* The process dies inside scan_and_process, before _save_state; the next watcher
\* object starts from HITLWatcher._load_state.
ScanCrash ==
    /\ \/ \* inside _expire_stale: the files of E are done, p has its status written
          \E E \in SUBSET {i \in Ids : files[i].loc = "Pending" /\ is_expired(files[i], now)} :
          \E p \in SUBSET {i \in Ids : files[i].loc = "Pending" /\ is_expired(files[i], now)} :
            /\ Cardinality(p) <= 1
            /\ p \cap E = {}
            /\ files' = [i \in Ids |->
                    IF i \in E THEN expire_one(files[i], now)
                    ELSE IF i \in p THEN update_status(files[i], "expired")
                    ELSE files[i]]
            /\ lastCalled' = {}
            /\ calledEver' = calledEver
       \/ \* inside _process_approved: the iterations of D are over, that of c is cut
          LET f1 == expire_stale(files, now)
              run == ToRun(f1, mem)
          IN  \E D \in SUBSET run :
              \E c \in SUBSET {i \in run \ D : HandlerReturns(f1[i])}, k \in 1..3 :
                /\ Cardinality(c) <= 1
                /\ c = {} => k = 1
                /\ files' = [i \in Ids |->
                        IF i \in D /\ HandlerReturns(f1[i]) THEN execute_one(f1[i], now)
                        ELSE IF i \in c THEN execute_cut(f1[i], now, k)
                        ELSE f1[i]]
                /\ lastCalled' = D \cup c
                /\ calledEver' = calledEver \cup D \cup c
    /\ mem' = stateFile
    /\ report' = None
    /\ lastAct' = "crash"
    /\ UNCHANGED <<stateFile, now>>
    /\ UNCHANGED rhVars

HitlNext ==
    \/ \E i \in Ids : Create(i)
    \/ \E i \in Ids : ExternalMove(i)
    \/ Tick
    \/ scan_and_process

\* ------------------------------------------------- action files on disk
\* An action file is its directory (loc), the state of its header block (hdr:
\* "yaml" a block yaml.safe_load turns into a dict, "bad" a block it rejects,
\* "nohdr" a text that does not start with ---), the keys written in the header
\* (meta, None for a key that is not there) and the body text (pad: the text
\* has white space around it).
EmptyMeta ==
    [id |-> None, action |-> None, status |-> None, created |-> None, expires |-> None,
     to |-> None, amount |-> None, flags |-> None,
     executed_at |-> None, execution_result |-> None]

NoRec == [loc |-> "none", hdr |-> "nohdr", meta |-> EmptyMeta,
          body |-> [text |-> "", pad |-> FALSE]]

\* A flags value: a list of strings, null, or a list holding a number.
StrList(items) == Some([kind |-> "list", items |-> items])
NullFlags == Some([kind |-> "null", items |-> <<>>])
NumList == Some([kind |-> "numbers", items |-> <<>>])

\* if amount > 500
FlagThreshold == 500

Flag == "FLAGGED: Amount exceeds $500 threshold (Handbook Rule #2)"

\* the flag added from the threshold on
payment_flags_from(amount) == IF amount >= FlagThreshold THEN <<Flag>> ELSE <<>>

\* HITLTemplates.payment_action: flags
payment_flags(amount) == IF amount > FlagThreshold THEN <<Flag>> ELSE <<>>

\* HITLTemplates.payment_action at time t: the file it writes
payment_action(i, amount, t) ==
    [loc |-> "Pending", hdr |-> "yaml",
     meta |-> [EmptyMeta EXCEPT !.id = Some(i), !.action = Some("payment"),
                 !.status = Some("pending"), !.created = Some(t),
                 !.expires = Some(t + EXPIRY_HOURS), !.to = Some("payee"),
                 !.amount = Some(amount), !.flags = StrList(payment_flags(amount))],
     body |-> [text |-> "Payment Approval Request", pad |-> FALSE]]

\* HITLTemplates.email_action at time t, with the caller's body
email_action(i, body, t) ==
    [loc |-> "Pending", hdr |-> "yaml",
     meta |-> [EmptyMeta EXCEPT !.id = Some(i), !.action = Some("email"),
                 !.status = Some("pending"), !.created = Some(t),
                 !.expires = Some(t + EXPIRY_HOURS), !.to = Some("rcpt"),
                 !.flags = StrList(<<>>)],
     body |-> body]

\* The payment amounts tried, in dollars.
Amounts == {499, 500, 501}

Bodies == {[text |-> "hello", pad |-> FALSE], [text |-> "hello", pad |-> TRUE]}

\* Files written by hand (or by another producer) instead of a template.
HandWritten(i) ==
    LET email == [EmptyMeta EXCEPT !.id = Some(i), !.action = Some("email"),
                     !.status = Some("pending"), !.to = Some("rcpt")]
        pay == [EmptyMeta EXCEPT !.id = Some(i), !.action = Some("payment"),
                   !.status = Some("pending"), !.to = Some("payee"),
                   !.amount = Some(750), !.flags = StrList(<<Flag>>)]
        text == [text |-> "hello", pad |-> FALSE]
    IN  { [loc |-> "Pending", hdr |-> "yaml", meta |-> email, body |-> text],
          [loc |-> "Pending", hdr |-> "yaml", body |-> text,
           meta |-> [email EXCEPT !.flags = NullFlags]],
          [loc |-> "Pending", hdr |-> "yaml", body |-> text,
           meta |-> [pay EXCEPT !.flags = NumList]],
          [loc |-> "Pending", hdr |-> "bad", meta |-> pay, body |-> text],
          [loc |-> "Pending", hdr |-> "nohdr", meta |-> EmptyMeta, body |-> text] }

\* str.strip
strip(body) == [body EXCEPT !.pad = FALSE]

\* HITLAction._parse: meta and body of the object
parse(f) ==
    IF f.hdr = "yaml" THEN [meta |-> f.meta, body |-> strip(f.body)]
    ELSE IF f.hdr = "bad" THEN [meta |-> EmptyMeta, body |-> strip(f.body)]
    ELSE [meta |-> EmptyMeta, body |-> f.body]

\* HITLAction._write: the header is the dump of meta, the body is self.body
write(f, a) == [f EXCEPT !.hdr = "yaml", !.meta = a.meta, !.body = a.body]

\* HITLAction.id, with the file stem i
ActId(a, i) == IF a.meta.id # None THEN a.meta.id[1] ELSE i

\* HITLAction.action
ActKind(a) == IF a.meta.action # None THEN a.meta.action[1] ELSE "general"

\* claude_reason_about_action returns (TRUE) or raises (FALSE): it iterates
\* meta.get("flags", []) and calls flag.upper() on each item.
ReasoningReturns(a) == a.meta.flags = None \/ a.meta.flags[1].kind = "list"

\* HITLAction.update_status followed by _write
rec_update_status(f, a, s) == write(f, [a EXCEPT !.meta.status = Some(s)])

\* One iteration of _expire_stale on file f at time t
rec_expire_one(f, t) ==
    IF f.loc = "Pending" /\ is_expired(parse(f).meta, t)
    THEN move(rec_update_status(f, parse(f), "expired"), "Expired")
    ELSE f

\* One iteration of _process_approved on file f of stem i: the file afterwards,
\* whether ActionExecutor.execute was invoked, whether the id was appended.
rec_process_one(f, i, ids, t) ==
    LET a == parse(f)
        a2 == [a EXCEPT !.meta.status = Some("executed"),
                        !.meta.executed_at = Some(t),
                        !.meta.execution_result = Some("result")]
        kept == [file |-> f, invoked |-> FALSE, done |-> FALSE]
    IN  IF f.loc # "Approved" \/ ActId(a, i) \in ids THEN kept
        ELSE IF ~ReasoningReturns(a) THEN kept
        ELSE IF ~HandlerReturns([action |-> ActKind(a), amount |-> a.meta.amount])
             THEN [kept EXCEPT !.invoked = TRUE]
        ELSE [file |-> move(write(f, a2), "Done"), invoked |-> TRUE, done |-> TRUE]

NoRecOp == [op |-> "none", id |-> "", amount |-> 0, invoked |-> {}]

RecInit ==
    /\ vault = [i \in Ids |-> NoRec]
    /\ execIds = {}
    /\ rLast = NoRecOp

RecFrame == <<stateFile, mem, report, lastCalled, calledEver, lastAct, files,
              cbVars, seVars, rtVars, tqVars, orVars, ceVars, rwVars>>

PaymentAction(i) ==
    /\ vault[i].loc = "none"
    /\ \E amount \in Amounts :
         /\ vault' = [vault EXCEPT ![i] = payment_action(i, amount, now)]
         /\ rLast' = [NoRecOp EXCEPT !.op = "payment_action", !.id = i, !.amount = amount]
    /\ UNCHANGED <<execIds, now, RecFrame>>

EmailAction(i) ==
    /\ vault[i].loc = "none"
    /\ \E body \in Bodies : vault' = [vault EXCEPT ![i] = email_action(i, body, now)]
    /\ rLast' = [NoRecOp EXCEPT !.op = "email_action", !.id = i]
    /\ UNCHANGED <<execIds, now, RecFrame>>

\* A file is written by hand into Pending_Approval or into Approved.
HandWrite(i) ==
    /\ vault[i].loc = "none"
    /\ \E f \in HandWritten(i), d \in {"Pending", "Approved"} :
         vault' = [vault EXCEPT ![i] = move(f, d)]
    /\ rLast' = [NoRecOp EXCEPT !.op = "hand", !.id = i]
    /\ UNCHANGED <<execIds, now, RecFrame>>

\* The human approves: moves the file from Pending_Approval to Approved.
Approve(i) ==
    /\ vault[i].loc = "Pending"
    /\ vault' = [vault EXCEPT ![i] = move(@, "Approved")]
    /\ rLast' = [NoRecOp EXCEPT !.op = "approve", !.id = i]
    /\ UNCHANGED <<execIds, now, RecFrame>>

\* HITLWatcher.scan_and_process on the files as they are written.
RecScan ==
    LET f1 == [i \in Ids |-> rec_expire_one(vault[i], now)]
        res == [i \in Ids |-> rec_process_one(f1[i], i, execIds, now)]
    IN  /\ vault' = [i \in Ids |-> res[i].file]
        /\ execIds' = execIds \cup {i \in Ids : res[i].done}
        /\ rLast' = [NoRecOp EXCEPT !.op = "scan",
                                    !.invoked = {i \in Ids : res[i].invoked}]
        /\ UNCHANGED <<now, RecFrame>>

RecNext ==
    \/ \E i \in Ids : PaymentAction(i)
    \/ \E i \in Ids : EmailAction(i)
    \/ \E i \in Ids : HandWrite(i)
    \/ \E i \in Ids : Approve(i)
    \/ RecScan
    \/ Tick

\* ------------------------------------------------- classify_error on messages
\* ERROR_MESSAGE_PATTERNS
ERROR_MESSAGE_PATTERNS ==
    [TRANSIENT |-> {"timeout", "timed out", "connection refused", "connection reset",
                    "rate limit", "429", "503", "502", "504", "temporary",
                    "service unavailable", "try again", "ECONNREFUSED", "ETIMEDOUT"},
     AUTH |-> {"401", "403", "unauthorized", "forbidden", "token expired",
               "invalid credentials", "authentication failed", "access denied",
               "permission denied", "invalid_grant"},
     LOGIC |-> {"validation", "invalid", "missing required", "bad request", "400",
                "not found", "404", "already exists", "duplicate", "constraint"},
     SYSTEM |-> {"disk full", "no space", "out of memory", "segfault",
                 "killed", "oom", "ENOMEM", "ENOSPC"}]

\* str.lower, on the strings met here
lower(w) ==
    CASE w = "TIMEOUT" -> "timeout"
      [] w = "Forbidden" -> "forbidden"
      [] w = "Invalid credentials" -> "invalid credentials"
      [] w = "Invalid" -> "invalid"
      [] w = "Permission denied" -> "permission denied"
      [] w = "ECONNREFUSED" -> "econnrefused"
      [] w = "ETIMEDOUT" -> "etimedout"
      [] w = "ENOMEM" -> "enomem"
      [] w = "ENOSPC" -> "enospc"
      [] OTHER -> w

\* A message is its text and the substrings of it that matter to the patterns.
Message(text, parts) == [text |-> text, parts |-> parts]

Messages ==
    { Message("", {}),
      Message("hello", {}),
      Message("Request TIMEOUT", {"TIMEOUT"}),
      Message("403 Forbidden", {"403", "Forbidden"}),
      Message("Invalid credentials", {"Invalid credentials", "Invalid"}),
      Message("Permission denied", {"Permission denied"}),
      Message("validation failed: timed out", {"validation", "timed out"}),
      Message("ENOSPC: no space left", {"ENOSPC", "no space"}) }

\* pattern in msg, without lowering either side
contains_cased(pattern, m) == pattern \in m.parts

\* pattern.lower() in msg, msg being str(error).lower()
contains(pattern, m) == lower(pattern) \in {lower(w) : w \in m.parts}

\* The categories with a pattern that occurs in the message.
MsgHits(m) == {k \in Categories : \E pattern \in ERROR_MESSAGE_PATTERNS[k] : contains(pattern, m)}

\* The exception classes tried, and the classes each inherits from.
Classes ==
    {"PermissionError", "MemoryError", "SystemError", "ConnectionError", "TimeoutError",
     "ConnectionResetError", "BrokenPipeError", "OSError", "ValueError", "TypeError",
     "KeyError", "AttributeError", "FileNotFoundError", "JSONDecodeError",
     "RuntimeError", "Exception"}

Bases(cls) ==
    CASE cls \in {"PermissionError", "ConnectionError", "TimeoutError", "FileNotFoundError"}
            -> {"OSError", "Exception"}
      [] cls \in {"ConnectionResetError", "BrokenPipeError"}
            -> {"ConnectionError", "OSError", "Exception"}
      [] cls = "JSONDecodeError" -> {"ValueError", "Exception"}
      [] cls = "KeyError" -> {"LookupError", "Exception"}
      [] OTHER -> {"Exception"}

\* The exception of class cls raised with message m.
Raised(cls, m) == Exc(cls, Bases(cls), MsgHits(m))

Errors == [cls : Classes, msg : Messages]

CeIdle ==
    /\ err = [cls |-> "Exception", msg |-> Message("", {})]
    /\ verdict = None

CeInit ==
    /\ err \in Errors
    /\ verdict = None

CeFrame == <<hitlVars, cbVars, seVars, rtVars, tqVars, recVars, orVars, rwVars>>

\* category = classify_error(error)
Classify ==
    /\ verdict = None
    /\ verdict' = Some(classify_error(Raised(err.cls, err.msg)))
    /\ UNCHANGED <<err, CeFrame>>

\* The next exception to classify.
NextError ==
    /\ verdict # None
    /\ err' \in Errors
    /\ verdict' = None
    /\ UNCHANGED CeFrame

CeNext ==
    \/ Classify
    \/ NextError

\* ------------------------------------------------- src/orchestrator.py
\* The steps run_cycle logs, [1/6] to [6/6].
CycleSteps == 6

\* main() after parse_args: --once, --interval; _shutdown is False at import.
\* step: the step of the run_cycle in progress; left: the seconds still to
\* sleep; cycles: run_cycle calls made; ended (history): how the last one ended.
Orchestrator(once, interval) ==
    [pc |-> "setup", once |-> once, interval |-> interval, shutdown |-> FALSE,
     step |-> 0, left |-> 0, cycles |-> 0, consecutive_clean |-> 0,
     ended |-> "none"]

OrIdle == orch = Orchestrator(FALSE, 0)

OrInit == \E once \in BOOLEAN, interval \in 0..MaxInterval : orch = Orchestrator(once, interval)

OrFrame == <<hitlVars, cbVars, seVars, rtVars, tqVars, recVars, ceVars, rwVars>>

\* handle_shutdown, run by the interpreter between two instructions of main
HandleShutdown ==
    /\ orch.pc # "exit"
    /\ ~orch.shutdown
    /\ orch' = [orch EXCEPT !.shutdown = TRUE]
    /\ UNCHANGED OrFrame

\* The call run_cycle(state, simulate=args.simulate)
call_run_cycle(o) ==
    [o EXCEPT !.pc = "cycle", !.step = 1, !.cycles = @ + 1, !.ended = "none"]

\* main() up to the branch on args.once
Setup ==
    /\ orch.pc = "setup"
    /\ orch' = IF orch.once THEN call_run_cycle(orch) ELSE [orch EXCEPT !.pc = "test"]
    /\ UNCHANGED OrFrame

\* while not _shutdown
LoopTest ==
    /\ orch.pc = "test"
    /\ orch' = [orch EXCEPT !.pc = IF orch.shutdown THEN "exit" ELSE "enter"]
    /\ UNCHANGED OrFrame

\* try: stats = run_cycle(...), entered after the loop test
StartCycle ==
    /\ orch.pc = "enter"
    /\ orch.cycles < MaxCycles
    /\ orch' = call_run_cycle(orch)
    /\ UNCHANGED OrFrame

\* run_cycle goes from one of its steps to the next
CycleStep ==
    /\ orch.pc = "cycle"
    /\ orch.step < CycleSteps
    /\ orch' = [orch EXCEPT !.step = @ + 1]
    /\ UNCHANGED OrFrame

\* run_cycle returns its stats, with or without errors in them
CycleReturn ==
    /\ orch.pc = "cycle"
    /\ orch.step = CycleSteps
    /\ \E errors \in BOOLEAN :
         orch' = [orch EXCEPT !.pc = IF orch.once THEN "exit" ELSE "after",
                              !.ended = "returned",
                              !.consecutive_clean = IF errors THEN 0 ELSE @ + 1]
    /\ UNCHANGED OrFrame

\* run_cycle raises: except Exception in the loop, propagated under --once
CycleRaise ==
    /\ orch.pc = "cycle"
    /\ orch' = [orch EXCEPT !.pc = IF orch.once THEN "exit" ELSE "after",
                            !.ended = "raised", !.consecutive_clean = 0]
    /\ UNCHANGED OrFrame

\* if _shutdown: break, else the sleep loop starts
AfterCycle ==
    /\ orch.pc = "after"
    /\ orch' = IF orch.shutdown THEN [orch EXCEPT !.pc = "exit"]
               ELSE [orch EXCEPT !.pc = "sleep", !.left = orch.interval]
    /\ UNCHANGED OrFrame

\* for _ in range(args.interval): if _shutdown: break
SleepTest ==
    /\ orch.pc = "sleep"
    /\ orch' = IF orch.left = 0 \/ orch.shutdown THEN [orch EXCEPT !.pc = "test", !.left = 0]
               ELSE [orch EXCEPT !.pc = "nap"]
    /\ UNCHANGED OrFrame

\* time.sleep(1)
Nap ==
    /\ orch.pc = "nap"
    /\ orch' = [orch EXCEPT !.pc = "sleep", !.left = @ - 1]
    /\ UNCHANGED OrFrame

OrNext ==
    \/ HandleShutdown
    \/ Setup
    \/ LoopTest
    \/ StartCycle
    \/ CycleStep
    \/ CycleReturn
    \/ CycleRaise
    \/ AfterCycle
    \/ SleepTest
    \/ Nap

\* ------------------------------------------------- src/ralph_wiggum.py
Files == {"f1.md", "f2.md"}

NoTasks == [f \in {} |-> "pending"]

\* RalphState.all_done
all_done(tasks) == DOMAIN tasks # {} /\ \A f \in DOMAIN tasks : tasks[f] = "done"

\* RalphState.pending_tasks
pending_tasks(tasks) == {f \in DOMAIN tasks : tasks[f] # "done"}

\* RalphState.record_task on each of the names, status "pending"
record_tasks(tasks, names) ==
    [f \in DOMAIN tasks \cup names |-> IF f \in names THEN "pending" ELSE tasks[f]]

\* RalphState.mark_done on each of the names that are tracked
mark_done(tasks, names) ==
    [f \in DOMAIN tasks |-> IF f \in names THEN "done" ELSE tasks[f]]

\* the loop running one iteration more than max_iterations
in_range_extra(iteration, max_iterations) == iteration <= max_iterations

\* for iteration in range(1, max_iterations + 1): there is a next iteration
in_range(iteration, max_iterations) == iteration < max_iterations

\* The files process_task moves to Done among those (Ok) it succeeds on: none
\* in a dry run, and never one whose header already says done, completed or
\* closed (closed), for which it returns at once.
Moved(Ok, closed, dry_run) == IF dry_run THEN {} ELSE Ok \ closed

\* The inbox and Done directories with no ralph_loop call made; after the call:
\* state.reset() and the arguments. closed: the inbox files whose header says
\* they are complete. runs (history) counts the loop bodies run.
Ralph(inbox, done) ==
    [pc |-> "idle", max_iterations |-> 0, dry_run |-> FALSE,
     inbox |-> inbox, closed |-> {}, done |-> done,
     iteration |-> 0, tasks |-> NoTasks, completed |-> FALSE, exit_reason |-> None,
     result |-> None, runs |-> 0]

RwIdle == rw = Ralph({}, {})

RwFrame == <<hitlVars, cbVars, seVars, rtVars, tqVars, recVars, orVars, ceVars>>

\* A producer puts a task file into the inbox.
DropFile ==
    /\ rw.pc \in {"idle", "loop"}
    /\ \E f \in Files \ rw.inbox, c \in BOOLEAN :
         rw' = [rw EXCEPT !.inbox = @ \cup {f},
                          !.closed = IF c THEN @ \cup {f} ELSE @]
    /\ UNCHANGED RwFrame

\* ralph_loop(inbox_dir, done_dir, max_iterations, dry_run) up to the loop
RalphCall ==
    /\ rw.pc = "idle"
    /\ \E n \in 0..MaxIterations, d \in BOOLEAN :
         rw' = [rw EXCEPT !.pc = "loop", !.max_iterations = n, !.dry_run = d]
    /\ UNCHANGED RwFrame

\* One iteration of the loop; Ok are the files process_task succeeds on, raised
\* tells that process_task raised after them (write_text or shutil.move failing).
RalphIteration ==
    /\ rw.pc = "loop"
    /\ in_range(rw.iteration, rw.max_iterations)
    /\ LET pending_files == rw.inbox
           t1 == record_tasks(rw.tasks, pending_files)
           t2 == mark_done(t1, rw.done)
           it == [rw EXCEPT !.iteration = @ + 1, !.runs = @ + 1]
       IN  IF pending_files = {} /\ all_done(t2)
           THEN rw' = [it EXCEPT !.tasks = t2, !.completed = TRUE,
                                 !.exit_reason = Some("all_tasks_done"), !.pc = "broke"]
           ELSE IF pending_files = {} /\ DOMAIN t2 = {}
           THEN rw' = [it EXCEPT !.tasks = t2, !.completed = TRUE,
                                 !.exit_reason = Some("empty_inbox"), !.pc = "broke"]
           ELSE \E Ok \in SUBSET pending_files, raised \in BOOLEAN :
                  LET t3 == mark_done(t2, Ok)
                      moved == [it EXCEPT
                                  !.tasks = t3,
                                  !.inbox = @ \ Moved(Ok, rw.closed, rw.dry_run),
                                  !.done = @ \cup Moved(Ok, rw.closed, rw.dry_run)]
                  IN  /\ raised => ~rw.dry_run /\ Ok # pending_files
                      /\ rw' = IF raised THEN [moved EXCEPT !.pc = "raised"]
                               ELSE IF all_done(t3)
                               THEN [moved EXCEPT !.completed = TRUE, !.pc = "broke",
                                                  !.exit_reason = Some("all_tasks_done")]
                               ELSE moved
    /\ UNCHANGED RwFrame

\* After the loop: the final status and the returned dict.
RalphReturn ==
    /\ \/ rw.pc = "broke"
       \/ rw.pc = "loop" /\ ~in_range(rw.iteration, rw.max_iterations)
    /\ LET reason == IF rw.completed THEN rw.exit_reason ELSE Some("max_iterations_reached")
       IN  rw' = [rw EXCEPT !.pc = "returned", !.exit_reason = reason,
                            !.result = Some([success |-> rw.completed,
                                             iterations |-> rw.iteration,
                                             exit_reason |-> reason])]
    /\ UNCHANGED RwFrame

RwNext ==
    \/ DropFile
    \/ RalphCall
    \/ RalphIteration
    \/ RalphReturn

NewIdle == RecInit /\ OrIdle /\ CeIdle /\ RwIdle

InitHitl == HitlInit /\ CbIdle /\ SeInit /\ RtInit /\ TqInit /\ NewIdle

SpecHitl == InitHitl /\ [][HitlNext]_vars

\* run_loop: while True, scan_and_process, then time.sleep(interval): the
\* cycle is run again and again.
SpecHitlFair == SpecHitl /\ WF_vars(scan_and_process)

HitlCrashNext ==
    \/ HitlNext
    \/ ScanCrash

SpecHitlCrash == InitHitl /\ [][HitlCrashNext]_vars

InitCb == HitlInit /\ CbInit /\ SeInit /\ RtInit /\ TqInit /\ NewIdle

SpecCb == InitCb /\ [][CbNext]_vars

InitSafe == HitlInit /\ CbIdle /\ SeInit /\ RtInit /\ TqInit /\ NewIdle

SpecSafe == InitSafe /\ [][SeNext]_vars

InitRetry == HitlInit /\ CbIdle /\ SeInit /\ RtInit /\ TqInit /\ NewIdle

SpecRetry == InitRetry /\ [][RtNext]_vars

InitEquiv == HitlInit /\ CbIdle /\ SeInit /\ RtInit /\ TqInit /\ NewIdle

SpecEquiv == InitEquiv /\ [][EqNext]_vars

InitQueue == HitlInit /\ CbIdle /\ SeInit /\ RtInit /\ TqInit /\ NewIdle

SpecQueue == InitQueue /\ [][TqNext]_vars

SpecQueueCrash == InitQueue /\ [][TqCrashNext]_vars

InitRec == HitlInit /\ CbIdle /\ SeInit /\ RtInit /\ TqInit /\ NewIdle

SpecRec == InitRec /\ [][RecNext]_vars

InitClassify ==
    /\ HitlInit /\ CbIdle /\ SeInit /\ RtInit /\ TqInit
    /\ RecInit /\ OrIdle /\ CeInit /\ RwIdle

SpecClassify == InitClassify /\ [][CeNext]_vars

InitOrch ==
    /\ HitlInit /\ CbIdle /\ SeInit /\ RtInit /\ TqInit
    /\ RecInit /\ OrInit /\ CeIdle /\ RwIdle

SpecOrch == InitOrch /\ [][OrNext]_vars

InitRalph == HitlInit /\ CbIdle /\ SeInit /\ RtInit /\ TqInit /\ NewIdle

SpecRalph == InitRalph /\ [][RwNext]_vars

\* ralph_loop is a sequential function: its next statement is always run.
SpecRalphFair == SpecRalph /\ WF_vars(RalphIteration) /\ WF_vars(RalphReturn)

\* ------------------------------------------------------------------ claims
IsScan(a) == a \in {"scan", "rescan"}

\* The expiry condition as the specification words it.
PastExpiry(r, t) ==
    \/ r.expires # None /\ t > r.expires[1]
    \/ r.expires = None /\ r.created # None /\ t > r.created[1] + 24

\* C1: an id on which ActionExecutor.execute was called in an earlier (completed)
\* cycle is never passed to ActionExecutor.execute again by a later cycle.
C1_NeverRedispatched == [][lastCalled' \cap calledEver = {}]_vars

\* C2: with crashes inside a cycle, each id (already those whose handler returns)
\* is dispatched to ActionExecutor at most once.
C2_AtMostOnceAcrossCrash ==
    [][\A i \in lastCalled' \cap calledEver :
          files[i].action = "payment" /\ files[i].amount = None]_vars

\* C3: execute is invoked only on records located in Approved, and no lifecycle
\* step puts a record into Approved: only an external move does.
C3_ApprovalGatesDispatch ==
    [][/\ \A i \in lastCalled' : files[i].loc = "Approved"
       /\ \A i \in Ids : (files'[i].loc = "Approved" /\ files[i].loc # "Approved")
                             => lastAct' = "move"]_vars

C3_Witness ==
    /\ lastCalled # {}
    /\ \E j \in Ids : files[j].loc \in {"Pending", "Rejected", "Expired"}
                      /\ j \notin calledEver

\* C4: once a record's status is executed, rejected or expired, a lifecycle cycle
\* neither changes that status nor dispatches the record.
C4_TerminalStatusIsFinal ==
    [][IsScan(lastAct') =>
          \A i \in Ids : files[i].status \in {"executed", "rejected", "expired"}
                           => /\ files'[i].status = files[i].status
                              /\ i \notin lastCalled']_vars

\* C5: no record whose expiry condition holds during a cycle is dispatched in that
\* cycle, whichever folder it is in.
C5_NoExpiredDispatch ==
    [][\A i \in lastCalled' : ~PastExpiry(files[i], now)]_vars

\* C6: a cycle moves every Pending record whose expiry condition holds to Expired
\* with status expired and leaves every other Pending record as it was; a second
\* cycle on the resulting storage changes no file and reports expired = 0.
C6_ExpireOnceThenNoop ==
    [][IsScan(lastAct') =>
          /\ \A i \in Ids : files[i].loc = "Pending" =>
                IF PastExpiry(files[i], now)
                THEN files'[i] = [files[i] EXCEPT !.loc = "Expired", !.status = "expired"]
                ELSE files'[i] = files[i]
          /\ lastAct' = "rescan" => files' = files /\ report'[1].expired = 0]_vars

C6_Witness ==
    /\ lastAct = "rescan"
    /\ report[1].expired = 0
    /\ \E i \in Ids : files[i].loc = "Expired" /\ files[i].status = "expired"
    /\ \E j \in Ids : files[j].loc = "Pending" /\ files[j].status = "pending"

\* C7: a record found in Approved whose id is not in executed_ids and whose
\* handler returns is, when the cycle returns, in Done with status executed, an
\* execution result and timestamp, and its id in the persisted executed_ids.
C7_ExecutedRecordIsFiled ==
    [][IsScan(lastAct') =>
          \A i \in Ids :
             (/\ files[i].loc = "Approved"
              /\ i \notin mem
              /\ i \in lastCalled'
              /\ (files[i].action = "payment" => files[i].amount # None))
             => /\ files'[i].loc = "Done"
                /\ files'[i].status = "executed"
                /\ files'[i].execution_result # None
                /\ files'[i].executed_at = Some(now)
                /\ i \in stateFile']_vars

C7_Witness ==
    /\ IsScan(lastAct)
    /\ \E i \in lastCalled : /\ files[i].loc = "Done"
                             /\ files[i].status = "executed"
                             /\ files[i].executed_at = Some(now)
                             /\ i \in stateFile

\* C8: a breaker with threshold N that starts Closed is Closed after fewer than
\* N record_failure calls and Open after exactly N; while Open, can_execute
\* answers false before recovery_timeout has elapsed since the last failure, and
\* the first call made once it has elapsed answers true and leaves HalfOpen;
\* record_success in HalfOpen leaves Closed with failure_count 0.
C8_BreakerCycle ==
    /\ (streak # None /\ streak[1] < cb.failure_threshold) => cb.state = "CLOSED"
    /\ (streak # None /\ streak[1] = cb.failure_threshold
            /\ cbLast.op = "record_failure") => cb.state = "OPEN"
    /\ (cbLast.op = "can_execute" /\ cbLast.pre = "OPEN") =>
          IF cbLast.due
          THEN cbLast.res = TRUE /\ cb.state = "HALF_OPEN"
          ELSE cbLast.res = FALSE /\ cb.state = "OPEN"
    /\ (cbLast.op = "record_success" /\ cbLast.pre = "HALF_OPEN") =>
          cb.state = "CLOSED" /\ cb.failure_count = 0

C8_Witness ==
    /\ cbLast.op = "record_success"
    /\ cbLast.pre = "HALF_OPEN"
    /\ cb.failure_threshold = 3
    /\ cb.recovery_timeout > 0
    /\ cb.state = "CLOSED"

\* C10: a HalfOpen breaker lets one probe through: a can_execute call that
\* finds the breaker HalfOpen (the probe was already let through) answers false.
C10_SingleProbe ==
    (cbLast.op = "can_execute" /\ cbLast.pre = "HALF_OPEN") => cbLast.res = FALSE

\* C11: a Closed circuit goes Open on a record_failure only if the last
\* failure_threshold recorded outcomes were all failures, with no record_success
\* in between.
C11_OpensOnConsecutiveFailures ==
    (cbLast.op = "record_failure" /\ cbLast.pre = "CLOSED" /\ cb.state = "OPEN")
        => consec >= cb.failure_threshold

RtDone == wcall.pc \in {"returned", "raised"}

\* C12: with max_retries = M and no forced category, a function that fails with
\* a Transient error on its first k invocations (0 <= k < M) and then succeeds is
\* invoked exactly k + 1 times, the wrapper returns the function's result, and
\* it sleeps exactly k times.
C12_TransientRecovery ==
    (/\ RtDone
     /\ wcall.category = None
     /\ Len(wcall.fails) < wcall.max_retries
     /\ \A i \in 1..Len(wcall.fails) : classify_error(wcall.fails[i]) = "TRANSIENT")
    => /\ wcall.invoked = Len(wcall.fails) + 1
       /\ wcall.pc = "returned"
       /\ wcall.result = Some("value")
       /\ wcall.sleeps = Len(wcall.fails)

C12_Witness ==
    /\ wcall.pc = "returned"
    /\ wcall.category = None
    /\ wcall.max_retries = 3
    /\ Len(wcall.fails) = 2
    /\ \A i \in 1..2 : classify_error(wcall.fails[i]) = "TRANSIENT"
    /\ wcall.invoked = 3
    /\ wcall.sleeps = 2

\* C13: with no forced category and max_retries >= 1, a function whose first
\* invocation fails with an error classified Auth, Logic or System is invoked
\* exactly once, no sleep occurs, and that same error is raised to the caller.
C13_NonTransientRaisedAtOnce ==
    (/\ wcall.category = None
     /\ wcall.max_retries >= 1
     /\ Len(wcall.fails) >= 1
     /\ classify_error(wcall.fails[1]) \in {"AUTH", "LOGIC", "SYSTEM"})
    => /\ wcall.pc = "loop" => wcall.invoked = 0
       /\ RtDone => /\ wcall.invoked = 1
                    /\ wcall.sleeps = 0
                    /\ wcall.pc = "raised"
                    /\ wcall.raised = Some(wcall.fails[1])

C13_Witness ==
    /\ wcall.pc = "raised"
    /\ wcall.category = None
    /\ wcall.max_retries = 3
    /\ Len(wcall.fails) = 3
    /\ classify_error(wcall.fails[1]) = "SYSTEM"
    /\ classify_error(wcall.fails[2]) = "TRANSIENT"
    /\ wcall.invoked = 1

\* C14: with max_retries = M >= 1, a function that fails with a Transient error
\* on every invocation is invoked exactly M times, the wrapper terminates, the
\* error of the last invocation is raised to the caller, and on_failure (when
\* given) is called exactly once.
C14_ExhaustionRaisesLast ==
    (/\ wcall.max_retries >= 1
     /\ Len(wcall.fails) >= wcall.max_retries
     /\ \A i \in 1..wcall.max_retries : classify_error(wcall.fails[i]) = "TRANSIENT")
    => /\ wcall.pc = "loop" => wcall.invoked < wcall.max_retries
       /\ RtDone => /\ wcall.pc = "raised"
                    /\ wcall.invoked = wcall.max_retries
                    /\ wcall.raised = Some(wcall.fails[wcall.max_retries])
                    /\ wcall.on_failure_calls = IF wcall.on_failure THEN 1 ELSE 0

C14_Witness ==
    /\ wcall.pc = "raised"
    /\ wcall.max_retries = 3
    /\ wcall.on_failure
    /\ wcall.on_failure_calls = 1
    /\ wcall.invoked = 3
    /\ wcall.fails[3] # wcall.fails[1]
    /\ wcall.raised = Some(wcall.fails[3])
    /\ \A i \in 1..3 : classify_error(wcall.fails[i]) = "TRANSIENT"

\* The category a failure counts as: the forced one, else that of classify_error.
EffectiveCategory(forced, e) == IF forced # None THEN forced[1] ELSE classify_error(e)

\* C15: only Transient failures are retried: the wrapper invokes the function
\* again after a failure only if the effective category of that failure is
\* TRANSIENT, and a failure of any other effective category is raised after
\* exactly one invocation.
C15_OnlyTransientRetried ==
    /\ (wcall.pc = "loop" /\ wcall.attempt > 1) =>
          EffectiveCategory(wcall.category, wcall.fails[wcall.attempt - 1]) = "TRANSIENT"
    /\ (wcall.pc = "raised"
            /\ EffectiveCategory(wcall.category, wcall.raised[1]) # "TRANSIENT") =>
          wcall.invoked = 1

\* C16: when safe_execute is called with a circuit_name whose can_execute() is
\* false, fn is invoked zero times, the fallback (when given) is invoked exactly
\* once with the synthetic circuit-open error and its result is the second
\* element of the return, with succeeded = false, and the circuit's state and
\* counters are left as they were.
C16_OpenCircuitSkipsCall ==
    [][\A n \in CircuitNames :
          (/\ calls' = calls + 1
           /\ call'.circuit_name = Some(n)
           /\ n \in DOMAIN circuits
           /\ ~can_execute(circuits[n], clock).res)
          => /\ call'.pc = "idle"
             /\ ret'.invoked = 0
             /\ seLast' = None
             /\ ~ret'.succeeded
             /\ IF call'.fallback
                THEN /\ ret'.fallbacks = 1
                     /\ ret'.fallback_arg = Some(CircuitOpenError)
                     /\ ret'.result = Some("fallback")
                ELSE ret'.fallbacks = 0
             /\ circuits' = circuits]_vars

C16_Witness ==
    /\ call.pc = "idle"
    /\ call.circuit_name = Some("svc")
    /\ call.fallback
    /\ circuits["svc"].state = "OPEN"
    /\ ret.invoked = 0
    /\ ret.fallbacks = 1
    /\ ret.fallback_arg = Some(CircuitOpenError)

\* C17: when safe_execute ends in a final failure (a non-Transient error, or a
\* Transient error on the last allowed attempt), the fallback is invoked exactly
\* once with that error and the return is (false, fallback result, error); with
\* no fallback it is (false, none, error); when fn succeeds the fallback is not
\* invoked and the return is (true, result, none).
C17_FinalFailureFallsBack ==
    [][(call.pc = "loop" /\ call'.pc = "idle") =>
          IF ret'.succeeded
          THEN /\ ret'.fallbacks = 0
               /\ ret'.result = Some("value")
               /\ ret'.error = None
          ELSE /\ ret'.error # None
               /\ ret'.error[1] \in FnErrors
               /\ (classify_error(ret'.error[1]) = "TRANSIENT"
                      => ret'.invoked = call.max_retries)
               /\ IF call.fallback
                  THEN /\ ret'.fallbacks = 1
                       /\ ret'.fallback_arg = ret'.error
                       /\ ret'.result = Some("fallback")
                  ELSE /\ ret'.fallbacks = 0
                       /\ ret'.result = None]_vars

C17_Witness ==
    /\ call.pc = "idle"
    /\ call.fallback
    /\ ret.invoked = 3
    /\ ~ret.succeeded
    /\ ret.fallbacks = 1
    /\ ret.error # None
    /\ ret.fallback_arg = ret.error
    /\ classify_error(ret.error[1]) = "TRANSIENT"

\* C18: every invocation of fn inside safe_execute with a circuit_name is fed
\* into that circuit exactly once, in the same step: one record_success when fn
\* returned, one record_failure when fn raised, whatever the error's category.
C18_EveryOutcomeRecordedOnce ==
    [][\A n \in CircuitNames :
          (call.pc = "loop" /\ call.circuit_name = Some(n) /\ seLast' # None)
          => IF call'.pc = "idle" /\ ret'.succeeded
             THEN /\ circuits'[n].success_count = circuits[n].success_count + 1
                  /\ circuits'[n].failure_count \in {circuits[n].failure_count, 0}
                  /\ circuits'[n].last_failure_time = circuits[n].last_failure_time
             ELSE /\ circuits'[n].failure_count = circuits[n].failure_count + 1
                  /\ circuits'[n].last_failure_time = clock
                  /\ circuits'[n].success_count = circuits[n].success_count]_vars

C18_Witness ==
    /\ call.pc = "idle"
    /\ call.circuit_name = Some("svc")
    /\ seLast # None
    /\ ~ret.succeeded
    /\ ret.invoked = 2
    /\ classify_error(ret.error[1]) = "AUTH"
    /\ circuits["svc"].failure_count = 2
    /\ circuits["svc"].success_count = 1

\* C19: enqueue never overwrites an existing record with the same id: an enqueue
\* made while a record with that task id is in the active queue (at any time,
\* the same clock second included) leaves that record's content as it was.
C19_EnqueueNeverOverwrites ==
    [][qLast'.op = "enqueue" =>
          \A f \in DOMAIN queue :
             queue[f].id = qLast'.id => (f \in DOMAIN queue' /\ queue'[f] = queue[f])]_vars

\* C20: a queued task with max_retries = M >= 1 whose processor fails on every
\* process_queue pass stays in the active queue, its persisted retry_count one
\* higher after each pass, through the first M - 1 passes, and the M-th failed
\* pass moves it to the dead-letter directory and out of the active queue.
C20_DeadLetteredByMthFailure ==
    [][qLast'.op = "process_queue" =>
          \A f \in qLast'.failed :
             LET M == queue[f].max_retries
                 j == passes.queue[f] + 1
             IN  M >= 1 =>
                    IF j < M
                    THEN /\ f \in DOMAIN queue'
                         /\ queue'[f] = [queue[f] EXCEPT !.retry_count = j]
                         /\ f \in DOMAIN dead' <=> f \in DOMAIN dead
                         /\ f \in DOMAIN dead => dead'[f] = dead[f]
                    ELSE /\ j = M
                         /\ f \notin DOMAIN queue'
                         /\ f \in DOMAIN dead'
                         /\ dead'[f].id = queue[f].id
                         /\ dead'[f].status = "dead_letter"]_vars

C20_Witness ==
    /\ qLast.op = "process_queue"
    /\ \E f \in qLast.failed :
          /\ f \in DOMAIN dead
          /\ f \notin DOMAIN queue
          /\ dead[f].max_retries = 3
          /\ passes.dead[f] = 3

\* The enqueue calls whose tasks the records of a directory history come from.
Serials(o) == {o[f].serial : f \in DOMAIN o}

\* C21: a task whose record is in the dead-letter directory is never handled
\* again: no later process_queue pass invokes the processor on it, and no step
\* puts it back into the queue directory.
C21_DeadLetteredNeverReprocessed ==
    [][ /\ Serials(origin.dead) \cap Serials(origin'.queue) = {}
        /\ qLast'.op = "process_queue" =>
              \A k \in DOMAIN qLast'.order :
                  origin.queue[qLast'.order[k]].serial \notin Serials(origin.dead) ]_vars

C21_Witness ==
    /\ qLast.op = "process_queue"
    /\ \E g \in DOMAIN dead : g \notin qLast.failed /\ passes.dead[g] >= 1
    /\ qLast.order # <<>>

\* C22: the relocation to dead-letter storage is atomic: in no reachable state,
\* a crash between the steps of send_to_dead_letter included, is the record of
\* one task both in the queue directory and in the dead-letter directory.
C22_NeverInBothStores ==
    Serials(origin.queue) \cap Serials(origin.dead) = {}

\* C23: every dead-letter record has the id, type, payload, reason, enqueued_at
\* and max_retries given to the enqueue call its task comes from, the status
\* dead_letter, and as dead_letter_reason the message of the failure of the pass
\* that dead-lettered it (the last of the passes the task went through).
C23_DeadLetterPreservesTask ==
    \A f \in DOMAIN dead :
        LET given == origin.dead[f].task
        IN  /\ dead[f].id = given.id
            /\ dead[f].type = given.type
            /\ dead[f].payload = given.payload
            /\ dead[f].reason = given.reason
            /\ dead[f].enqueued_at = given.enqueued_at
            /\ dead[f].max_retries = given.max_retries
            /\ dead[f].status = "dead_letter"
            /\ dead[f].dead_letter_reason = Some(passes.dead[f])

C23_Witness ==
    \E f \in DOMAIN dead :
        /\ dead[f].max_retries = MaxTaskRetries
        /\ passes.dead[f] = MaxTaskRetries
        /\ dead[f].payload = "p2"

\* C29: process_queue handles the queued tasks in order of enqueue time: of two
\* tasks in the queue directory, the one enqueued earlier has the processor
\* invoked on it first, whatever their ids.
C29_ProcessedInEnqueueOrder ==
    [][ qLast'.op = "process_queue" =>
          \A i, j \in DOMAIN qLast'.order :
              queue[qLast'.order[i]].enqueued_at < queue[qLast'.order[j]].enqueued_at
                  => i < j ]_vars

\* C24: the file payment_action creates carries the flag naming the $500
\* threshold if and only if the amount is strictly greater than 500; for an
\* amount of 500 or less its flags list is empty; in both cases the file is in
\* Pending_Approval with status pending.
C24_FlagIffAbove500 ==
    rLast.op = "payment_action" =>
        LET f == vault[rLast.id]
        IN  /\ f.loc = "Pending"
            /\ f.hdr = "yaml"
            /\ f.meta.status = Some("pending")
            /\ f.meta.amount = Some(rLast.amount)
            /\ (rLast.amount > 500 <=> f.meta.flags = StrList(<<Flag>>))
            /\ (rLast.amount <= 500 => f.meta.flags = StrList(<<>>))

C24_Witness ==
    /\ rLast.op = "payment_action"
    /\ rLast.amount = 500
    /\ vault[rLast.id].meta.flags = StrList(<<>>)
    /\ \E i \in Ids : vault[i].meta.flags = StrList(<<Flag>>) /\ vault[i].meta.amount = Some(501)

\* C27: in every scan, ActionExecutor.execute is invoked on every file found in
\* Approved whose id is not in executed_ids, whatever the reasoning step does
\* with it (its flags may be absent, null, or not a list of strings).
C27_ReasoningNeverBlocks ==
    [][ rLast'.op = "scan" =>
          \A i \in Ids :
              vault[i].loc = "Approved" /\ ActId(parse(vault[i]), i) \notin execIds
                  => i \in rLast'.invoked ]_vars

\* C28: a step that changes the status of a file to expired or to executed
\* leaves its id, its type, its payload fields and its body text as they were,
\* also when its header block cannot be parsed.
C28_StatusChangeKeepsRecord ==
    [][ \A i \in Ids :
          /\ vault[i].loc \in {"Pending", "Approved"}
          /\ vault'[i].loc \in {"Expired", "Done"}
          /\ vault'[i].meta.status \in {Some("expired"), Some("executed")}
          => /\ vault'[i].meta.id = vault[i].meta.id
             /\ vault'[i].meta.action = vault[i].meta.action
             /\ vault'[i].meta.to = vault[i].meta.to
             /\ vault'[i].meta.amount = vault[i].meta.amount
             /\ vault'[i].body = vault[i].body ]_vars

\* The category of the first entry of EXCEPTION_CATEGORY_MAP, from entry k on,
\* whose type the exception is an instance of; None when there is none.
RECURSIVE FirstTypeMatch(_, _)
FirstTypeMatch(isa, k) ==
    IF k > Len(EXCEPTION_CATEGORY_MAP) THEN None
    ELSE IF EXCEPTION_CATEGORY_MAP[k][1] \in isa THEN Some(EXCEPTION_CATEGORY_MAP[k][2])
    ELSE FirstTypeMatch(isa, k + 1)

\* C26: classify_error always returns one of the four categories; when the type
\* of the error matches the type table it returns the category of the first
\* matching entry whatever the message (a PermissionError is AUTH although it
\* is an OSError); otherwise the category of a pattern the message contains
\* case-insensitively; otherwise LOGIC.
C26_ClassifyPriority ==
    verdict # None =>
        LET isa == {err.cls} \cup Bases(err.cls)
            byType == FirstTypeMatch(isa, 1)
            found == {k \in Categories :
                        \E pattern \in ERROR_MESSAGE_PATTERNS[k] :
                            lower(pattern) \in {lower(w) : w \in err.msg.parts}}
        IN  /\ verdict[1] \in {"TRANSIENT", "AUTH", "LOGIC", "SYSTEM"}
            /\ byType # None =>
                 /\ verdict = byType
                 /\ \A m \in Messages : classify_error(Raised(err.cls, m)) = verdict[1]
            /\ "PermissionError" \in isa => verdict[1] = "AUTH"
            /\ byType = None /\ found # {} => verdict[1] \in found
            /\ byType = None /\ found = {} => verdict[1] = "LOGIC"

C26_Witness ==
    /\ verdict = Some("AUTH")
    /\ err.cls = "PermissionError"
    /\ err.msg.text = "Request TIMEOUT"

\* C25: a shutdown signal never aborts the cycle in progress (run_cycle leaves
\* its steps only at its end, or by an exception of its own), and no run_cycle
\* is called by the main loop once the signal has been received.
C25_GracefulShutdown ==
    [][ /\ orch.pc = "cycle" /\ orch'.pc # "cycle"
            => orch.step = CycleSteps \/ orch'.ended = "raised"
        /\ ~orch.once /\ orch.pc # "cycle" /\ orch'.pc = "cycle" => ~orch.shutdown ]_vars

\* C30: a ralph_loop call ends (returns, or raises what process_task raised)
\* after running its loop body at most max_iterations times; the iterations it
\* returns is at most max_iterations, its exit_reason is all_tasks_done,
\* empty_inbox or max_iterations_reached, and its success is true exactly when
\* the exit_reason is not max_iterations_reached.
C30_RalphLoopBounded ==
    /\ [](/\ rw.runs <= rw.max_iterations
          /\ rw.pc = "returned" =>
               /\ rw.result[1].iterations <= rw.max_iterations
               /\ rw.result[1].exit_reason \in
                     {Some("all_tasks_done"), Some("empty_inbox"),
                      Some("max_iterations_reached")}
               /\ rw.result[1].success <=>
                     rw.result[1].exit_reason # Some("max_iterations_reached"))
    /\ (rw.pc = "loop" ~> rw.pc \in {"returned", "raised"})

C30_Witness ==
    /\ rw.pc = "returned"
    /\ rw.max_iterations = MaxIterations
    /\ rw.result[1].iterations = MaxIterations
    /\ rw.result[1].exit_reason = Some("max_iterations_reached")
    /\ pending_tasks(rw.tasks) # {}

\* C31: whenever ralph_loop returns success with exit_reason all_tasks_done,
\* every task file it tracked is in the done directory and not in the inbox,
\* with dry_run set or not.
C31_DoneMeansMoved ==
    rw.pc = "returned" /\ rw.result[1].success
        /\ rw.result[1].exit_reason = Some("all_tasks_done")
    => \A f \in DOMAIN rw.tasks : f \in rw.done /\ f \notin rw.inbox

\* C32: record_success in HALF_OPEN sets the state to CLOSED and failure_count
\* to 0 and does not increment success_count; in CLOSED or OPEN it increments
\* success_count by one and leaves state, failure_count and last_failure_time.
C32_RecordSuccessFrame ==
    [][ cbLast'.op = "record_success" =>
          /\ cb.state = "HALF_OPEN" =>
               /\ cb'.state = "CLOSED"
               /\ cb'.failure_count = 0
               /\ cb'.success_count = cb.success_count
          /\ cb.state \in {"CLOSED", "OPEN"} =>
               /\ cb'.success_count = cb.success_count + 1
               /\ cb'.state = cb.state
               /\ cb'.failure_count = cb.failure_count
               /\ cb'.last_failure_time = cb.last_failure_time ]_vars

\* C33: record_failure in HALF_OPEN only sets the state back to OPEN and leaves
\* failure_count; in any other state it increments failure_count by one; and
\* last_failure_time is written only by the call that makes failure_count
\* reach failure_threshold and opens the circuit.
C33_RecordFailureFrame ==
    [][ cbLast'.op = "record_failure" =>
          /\ cb.state = "HALF_OPEN" =>
               /\ cb'.state = "OPEN"
               /\ cb'.failure_count = cb.failure_count
          /\ cb.state # "HALF_OPEN" => cb'.failure_count = cb.failure_count + 1
          /\ cb'.last_failure_time # cb.last_failure_time =>
               /\ cb.state = "CLOSED" /\ cb'.state = "OPEN"
               /\ cb'.failure_count = cb.failure_threshold ]_vars

\* C34: over any sequence of can_execute, record_success and record_failure
\* calls the state changes only along CLOSED -> OPEN, OPEN -> HALF_OPEN,
\* HALF_OPEN -> CLOSED and HALF_OPEN -> OPEN.
C34_StateEdges ==
    [][ cb'.state # cb.state =>
          <<cb.state, cb'.state>> \in
              { <<"CLOSED", "OPEN">>, <<"OPEN", "HALF_OPEN">>,
                <<"HALF_OPEN", "CLOSED">>, <<"HALF_OPEN", "OPEN">> } ]_vars

C34_Witness ==
    /\ cbLast.op = "record_success"
    /\ cbLast.pre = "OPEN"
    /\ cb.state = "OPEN"
    /\ cb.success_count >= 2

\* C37: with failure_threshold >= 1, in every reachable state the state is one
\* of CLOSED, OPEN, HALF_OPEN, and CLOSED implies failure_count below
\* failure_threshold.
C37_ClosedBelowThreshold ==
    /\ cb.state \in {"CLOSED", "OPEN", "HALF_OPEN"}
    /\ cb.state = "CLOSED" => cb.failure_count < cb.failure_threshold

C37_Witness ==
    /\ cbLast.op = "record_success"
    /\ cbLast.pre = "HALF_OPEN"
    /\ cb.state = "CLOSED"
    /\ cb.failure_threshold >= 2
    /\ cb.success_count = 1

\* C35: in one process_queue pass the processor is invoked exactly once on every
\* task in the queue directory at the start, and each of these tasks ends the
\* pass deleted (counted processed), still in the queue directory (counted
\* failed) or in the dead-letter directory (counted dead_letter), in one place
\* only, so that the three counts add up to the number of tasks at the start.
C35_PassAccountsForEveryTask ==
    [][ qLast'.op = "process_queue" =>
          LET start == DOMAIN queue
              order == qLast'.order
              r == qLast'.results
              kept == {f \in start : origin.queue[f].serial \in Serials(origin'.queue)}
              moved == {f \in start : origin.queue[f].serial \in Serials(origin'.dead)}
          IN  /\ \A f \in start : Cardinality({k \in DOMAIN order : order[k] = f}) = 1
              /\ Len(order) = Cardinality(start)
              /\ kept \cap moved = {}
              /\ r.processed = Cardinality(start \ (kept \cup moved))
              /\ r.failed = Cardinality(kept)
              /\ r.dead_letter = Cardinality(moved)
              /\ r.processed + r.failed + r.dead_letter = Cardinality(start) ]_vars

C35_Witness ==
    /\ qLast.op = "process_queue"
    /\ Len(qLast.order) = 2
    /\ qLast.results.processed = 1
    /\ qLast.results.dead_letter = 1
    /\ \E f \in DOMAIN dead : f \in qLast.failed /\ passes.dead[f] = 1

\* C38: every record in the dead-letter directory records the attempt that
\* exhausted it: its retry_count is at least its max_retries.
C38_DeadRecordExhausted ==
    \A f \in DOMAIN dead : dead[f].retry_count >= dead[f].max_retries

\* C36: safe_execute's retry loop does what the retry decorator (no forced
\* category, same max_retries) does over the same fn: as many invocations of fn,
\* as many sleeps, success with the same result exactly when the decorator
\* returns, the same final error exactly when the decorator raises.
C36_LoopsEquivalent ==
    (/\ wcall.pc \in {"returned", "raised"}
     /\ wcall.category = None
     /\ calls = 1
     /\ call.pc = "idle")
    => /\ ret.invoked = wcall.invoked
       /\ ret.sleeps = wcall.sleeps
       /\ (ret.succeeded /\ ret.result = wcall.result) <=> wcall.pc = "returned"
       /\ (~ret.succeeded /\ ret.error # None /\ ret.error = wcall.raised)
             <=> wcall.pc = "raised"

\* C39: every safe_execute return has succeeded = true if and only if its
\* error element is None: a return with succeeded = false carries the error.
C39_FailureCarriesError ==
    (calls >= 1 /\ call.pc = "idle") => (ret.succeeded <=> ret.error = None)

\* C40: with the lifecycle cycle run again and again, every record placed in
\* Approved is eventually in Done with status executed (unless the human takes
\* it out of Approved first): no record stays in Approved forever, whatever its
\* type and payload, and whether or not its id is already in executed_ids.
C40_ApprovedEventuallyDone ==
    \A i \in Ids :
        (files[i].loc = "Approved")
            ~> \/ files[i].loc = "Done" /\ files[i].status = "executed"
               \/ files[i].loc \in {"Pending", "Rejected"}

\* C9: within safe_execute with a circuit_name, fn is never invoked at a moment
\* when that circuit is Open.
C9_NoInvocationWhileOpen == seLast # Some("OPEN")

====
